---- MODULE Spec2Model ----
(***************************************************************************)
(* Polars -> Vortex expression translation (vortex/polars_.py) and the     *)
(* Polars IO-source generator of VortexFile.to_polars (vortex/file.py).    *)
(*                                                                         *)
(* JSON objects are functions from key strings, so `"K" in expr` is        *)
(* "K" \in DOMAIN expr.  JSON payload values are written as their Python   *)
(* repr: "None" is None, "1" the integer 1.                                *)
(***************************************************************************)
EXTENDS Integers, Sequences, FiniteSets, TLC

VARIABLES
    texpr,        \* the dict handed to _polars_to_vortex
    tresult,      \* what the call returned or raised
    tpc,          \* "idle" | "input" | "done"
    nrows,        \* rows stored in the opened file
    matching,     \* rows of the file a pushed-down predicate keeps
    defaultBatch, \* batch size to_arrow uses when none is passed
    pc,           \* "idle" | "opened" | "registered" | "called"
    schema,       \* schema handed to register_io_source
    args,         \* arguments of the _io_source call
    gen,          \* generator: "none" | "created" | "loop" | "sentinel" | "done" | "raised" | "closed"
    scan,         \* arguments of the to_arrow call, Nothing while not opened
    reader,       \* the record batch reader: its schema and the batches left
    yielded,      \* the frames yielded to the consumer, in order
    error,        \* the exception the generator raised, NoError if none
    pulls         \* number of next() calls made on the generator

vars == <<texpr, tresult, tpc, nrows, matching, defaultBatch, pc, schema, args,
          gen, scan, reader, yielded, error, pulls>>

tvars == <<texpr, tresult, tpc>>
bvars == <<nrows, matching, defaultBatch, pc, schema, args, gen, scan, reader,
           yielded, error, pulls>>

(***************************************************************************)
(* Bounds                                                                  *)
(***************************************************************************)
MaxPayload == 1
MaxInputs == 2
MaxRows == 3
MaxBatch == 2

(***************************************************************************)
(* Python values                                                           *)
(***************************************************************************)
None == "None"

Ok(e) == [ok |-> TRUE, val |-> e]

Raise(exc, msg) == [ok |-> FALSE, exc |-> exc, msg |-> msg]

Nothing == [some |-> FALSE]

Some(v) == [some |-> TRUE, v |-> v]

NoError == [ok |-> TRUE]

(***************************************************************************)
(* polars_.py: the operator table                                          *)
(***************************************************************************)
OpTags == {"Eq", "NotEq", "Lt", "LtEq", "Gt", "GtEq", "And", "Or", "LogicalAnd", "LogicalOr"}

_OPS_swapped(op, lhs, rhs) ==
    [tag |-> "BinaryOp",
     op  |-> CASE op = "Eq" -> "eq" [] op = "NotEq" -> "ne"
               [] op = "Lt" -> "lt" [] op = "LtEq" -> "le"
               [] op = "Gt" -> "gt" [] op = "GtEq" -> "ge"
               [] op = "And" -> "and_" [] op = "Or" -> "or_"
               [] op = "LogicalAnd" -> "and_" [] op = "LogicalOr" -> "or_",
     lhs |-> rhs,
     rhs |-> lhs]

\* _OPS[op](lhs, rhs): operator.eq(lhs, rhs) is lhs == rhs, which the Expr
\* class builds into a binary expression over (lhs, rhs).
_OPS(op, lhs, rhs) ==
    [tag |-> "BinaryOp",
     op  |-> CASE op = "Eq" -> "eq" [] op = "NotEq" -> "ne"
               [] op = "Lt" -> "lt" [] op = "LtEq" -> "le"
               [] op = "Gt" -> "gt" [] op = "GtEq" -> "ge"
               [] op = "And" -> "and_" [] op = "Or" -> "or_"
               [] op = "LogicalAnd" -> "and_" [] op = "LogicalOr" -> "or_",
     lhs |-> lhs,
     rhs |-> rhs]

(***************************************************************************)
(* polars_.py: the literal type table                                      *)
(***************************************************************************)
LiteralTypeTags ==
    {"Boolean", "Int", "Int8", "Int16", "Int32", "Int64", "UInt8", "UInt16",
     "UInt32", "UInt64", "Float32", "Float64", "Null", "String", "Binary"}

_LITERAL_TYPES_not_nullable(tag, v) ==
    CASE tag = "Boolean" -> [kind |-> "bool", nullable |-> FALSE]
      [] tag = "Int"     -> [kind |-> "int", width |-> 64, nullable |-> FALSE]
      [] tag = "Int8"    -> [kind |-> "int", width |-> 8, nullable |-> FALSE]
      [] tag = "Int16"   -> [kind |-> "int", width |-> 16, nullable |-> FALSE]
      [] tag = "Int32"   -> [kind |-> "int", width |-> 32, nullable |-> FALSE]
      [] tag = "Int64"   -> [kind |-> "int", width |-> 64, nullable |-> FALSE]
      [] tag = "UInt8"   -> [kind |-> "uint", width |-> 8, nullable |-> FALSE]
      [] tag = "UInt16"  -> [kind |-> "uint", width |-> 16, nullable |-> FALSE]
      [] tag = "UInt32"  -> [kind |-> "uint", width |-> 32, nullable |-> FALSE]
      [] tag = "UInt64"  -> [kind |-> "uint", width |-> 64, nullable |-> FALSE]
      [] tag = "Float32" -> [kind |-> "float", width |-> 32, nullable |-> FALSE]
      [] tag = "Float64" -> [kind |-> "float", width |-> 64, nullable |-> FALSE]
      [] tag = "Null"    -> [kind |-> "null", nullable |-> TRUE]
      [] tag = "String"  -> [kind |-> "utf8", nullable |-> FALSE]
      [] tag = "Binary"  -> [kind |-> "binary", nullable |-> FALSE]

\* _LITERAL_TYPES[tag](v).  vx.null() takes no argument: the null type is the
\* same, inherently nullable, type whatever v is.
_LITERAL_TYPES(tag, v) ==
    CASE tag = "Boolean" -> [kind |-> "bool", nullable |-> (v = None)]
      [] tag = "Int"     -> [kind |-> "int", width |-> 64, nullable |-> (v = None)]
      [] tag = "Int8"    -> [kind |-> "int", width |-> 8, nullable |-> (v = None)]
      [] tag = "Int16"   -> [kind |-> "int", width |-> 16, nullable |-> (v = None)]
      [] tag = "Int32"   -> [kind |-> "int", width |-> 32, nullable |-> (v = None)]
      [] tag = "Int64"   -> [kind |-> "int", width |-> 64, nullable |-> (v = None)]
      [] tag = "UInt8"   -> [kind |-> "uint", width |-> 8, nullable |-> (v = None)]
      [] tag = "UInt16"  -> [kind |-> "uint", width |-> 16, nullable |-> (v = None)]
      [] tag = "UInt32"  -> [kind |-> "uint", width |-> 32, nullable |-> (v = None)]
      [] tag = "UInt64"  -> [kind |-> "uint", width |-> 64, nullable |-> (v = None)]
      [] tag = "Float32" -> [kind |-> "float", width |-> 32, nullable |-> (v = None)]
      [] tag = "Float64" -> [kind |-> "float", width |-> 64, nullable |-> (v = None)]
      [] tag = "Null"    -> [kind |-> "null", nullable |-> TRUE]
      [] tag = "String"  -> [kind |-> "utf8", nullable |-> (v = None)]
      [] tag = "Binary"  -> [kind |-> "binary", nullable |-> (v = None)]

\* ve.literal(dtype, value)
literal(dtype, value) == [tag |-> "Literal", dtype |-> dtype, value |-> value]

\* ve.column(name)
column(name) == [tag |-> "Column", name |-> name]

(***************************************************************************)
(* polars_.py: _polars_to_vortex, one operator per branch                  *)
(***************************************************************************)
BinaryExpr_no_check(lhs, rhs, op) ==
    IF ~lhs.ok THEN lhs
    ELSE IF ~rhs.ok THEN rhs
    ELSE Ok([tag |-> "BinaryOp", op |-> op, lhs |-> lhs.val, rhs |-> rhs.val])

\* The BinaryExpr branch once both operands were translated: lhs and rhs are
\* the outcomes of the two recursive calls, made in that order before op is
\* looked at.
BinaryExpr(lhs, rhs, op) ==
    IF ~lhs.ok THEN lhs
    ELSE IF ~rhs.ok THEN rhs
    ELSE IF op \notin OpTags
    THEN Raise("NotImplementedError", "Unsupported Polars binary operator")
    ELSE Ok(_OPS(op, lhs.val, rhs.val))

Scalar_any_value(s) ==
    LET dtype == s.dtype
        value == s.value
        v     == IF "StringOwned" \in DOMAIN value THEN value.StringOwned ELSE None
    IN  IF dtype \in LiteralTypeTags
        THEN Ok(literal(_LITERAL_TYPES(dtype, v), v))
        ELSE Raise("KeyError", dtype)

\* The Scalar branch: the value is resolved first, then the dtype is looked
\* up in the table with a plain subscript, which raises KeyError for a tag
\* the table does not have.
Scalar(s) ==
    LET dtype == s.dtype
        value == s.value
    IN  IF "Null" \in DOMAIN value
        THEN IF dtype \in LiteralTypeTags
             THEN Ok(literal(_LITERAL_TYPES(dtype, None), None))
             ELSE Raise("KeyError", dtype)
        ELSE IF "StringOwned" \in DOMAIN value
        THEN IF dtype \in LiteralTypeTags
             THEN Ok(literal(_LITERAL_TYPES(dtype, value.StringOwned), value.StringOwned))
             ELSE Raise("KeyError", dtype)
        ELSE Raise("ValueError", "Unsupported Polars scalar value type")

DateTime_tz_ignored(payload) ==
    LET value == payload[1]
        unit  == payload[2]
    IN  IF unit \notin {"Nanoseconds", "Microseconds", "Milliseconds", "Seconds"}
        THEN Raise("NotImplementedError", "Unsupported Polars date time unit")
        ELSE Ok(literal([kind |-> "ext", id |-> "vortex.timestamp",
                         storage |-> [kind |-> "int", width |-> 64, nullable |-> (value = None)],
                         metadata |-> <<CASE unit = "Nanoseconds" -> 0
                                          [] unit = "Microseconds" -> 1
                                          [] unit = "Milliseconds" -> 2
                                          [] unit = "Seconds" -> 3>> \o <<0, 0>>],
                        value))

DateTime_unit_byte_only(payload) ==
    LET value == payload[1]
        unit  == payload[2]
        tz    == payload[3]
    IN  IF unit \notin {"Nanoseconds", "Microseconds", "Milliseconds", "Seconds"}
        THEN Raise("NotImplementedError", "Unsupported Polars date time unit")
        ELSE IF tz # None
        THEN Raise("ValueError", "Polars DateTime with timezone not supported")
        ELSE Ok(literal([kind |-> "ext", id |-> "vortex.timestamp",
                         storage |-> [kind |-> "int", width |-> 64, nullable |-> (value = None)],
                         metadata |-> <<CASE unit = "Nanoseconds" -> 0
                                          [] unit = "Microseconds" -> 1
                                          [] unit = "Milliseconds" -> 2
                                          [] unit = "Seconds" -> 3>>],
                        value))

\* The DateTime branch of a Literal: payload is (value, unit, tz).  The unit
\* is matched first, the time zone is looked at after it.
DateTime(payload) ==
    LET value == payload[1]
        unit  == payload[2]
        tz    == payload[3]
    IN  IF unit \notin {"Nanoseconds", "Microseconds", "Milliseconds", "Seconds"}
        THEN Raise("NotImplementedError", "Unsupported Polars date time unit")
        ELSE IF tz # None
        THEN Raise("ValueError", "Polars DateTime with timezone not supported")
        ELSE Ok(literal([kind |-> "ext", id |-> "vortex.timestamp",
                         storage |-> [kind |-> "int", width |-> 64, nullable |-> (value = None)],
                         metadata |-> <<CASE unit = "Nanoseconds" -> 0
                                          [] unit = "Microseconds" -> 1
                                          [] unit = "Milliseconds" -> 2
                                          [] unit = "Seconds" -> 3>> \o <<0, 0>>],
                        value))

\* next(iter(expr.keys()), None)
NoKey == "<None>"

FirstKey(d) == IF DOMAIN d = {} THEN NoKey ELSE CHOOSE k \in DOMAIN d : TRUE

TypedLiteral_no_unwrap(lit) ==
    LET literal_type == FirstKey(lit)
    IN  IF literal_type \notin LiteralTypeTags
        THEN Raise("NotImplementedError", "Unsupported Polars literal type")
        ELSE Ok(literal(_LITERAL_TYPES(literal_type, lit[literal_type]), lit[literal_type]))

\* The tail of the Literal branch: the Dyn unwrapping and the table lookup.
TypedLiteral(lit) ==
    LET dyn          == FirstKey(lit) = "Dyn"
        expr         == IF dyn THEN lit["Dyn"] ELSE lit
        literal_type == FirstKey(expr)
    IN  IF literal_type \notin LiteralTypeTags
        THEN Raise("NotImplementedError", "Unsupported Polars literal type")
        ELSE Ok(literal(_LITERAL_TYPES(literal_type, expr[literal_type]), expr[literal_type]))

Function_without_contains(fn0) ==
    LET isBool == "Boolean" \in DOMAIN fn0
        fn1    == IF isBool THEN fn0.Boolean ELSE fn0
        isIn   == isBool /\ "IsIn" \in DOMAIN fn1
        fn2    == IF isIn THEN fn1.IsIn ELSE fn1
    IN  IF isIn /\ fn2.nulls_equal
        THEN Raise("ValueError", "Unsupported nulls_equal argument in fn")
        ELSE Raise("NotImplementedError", "Unsupported Polars function")

\* The tail of the Function branch, reached when every input was translated.
Function(fn0) ==
    LET isBool == "Boolean" \in DOMAIN fn0
        fn1    == IF isBool THEN fn0.Boolean ELSE fn0
        isIn   == isBool /\ "IsIn" \in DOMAIN fn1
        fn2    == IF isIn THEN fn1.IsIn ELSE fn1
    IN  IF isIn /\ fn2.nulls_equal
        THEN Raise("ValueError", "Unsupported nulls_equal argument in fn")
        ELSE IF "StringExpr" \in DOMAIN fn2 /\ "Contains" \in DOMAIN fn2.StringExpr
        THEN Raise("ValueError", "Unsupported Polars StringExpr.Contains")
        ELSE Raise("NotImplementedError", "Unsupported Polars function")

RECURSIVE _polars_to_vortex(_)
_polars_to_vortex(expr) ==
    IF "BinaryExpr" \in DOMAIN expr
    THEN BinaryExpr(_polars_to_vortex(expr.BinaryExpr.left),
                    _polars_to_vortex(expr.BinaryExpr.right),
                    expr.BinaryExpr.op)
    ELSE IF "Column" \in DOMAIN expr
    THEN Ok(column(expr.Column))
    ELSE IF "Scalar" \in DOMAIN expr
    THEN Scalar(expr.Scalar)
    ELSE IF "Literal" \in DOMAIN expr
    THEN LET lit          == expr.Literal
             literal_type == FirstKey(lit)
         IN  IF literal_type = "Scalar" THEN _polars_to_vortex(lit)
             ELSE IF literal_type = "Series" THEN Raise("ValueError", "")
             ELSE IF literal_type = "DateTime" THEN DateTime(lit.DateTime)
             ELSE TypedLiteral(lit)
    ELSE IF "Function" \in DOMAIN expr
    THEN LET input  == expr.Function.input
             inputs == [i \in 1..Len(input) |-> _polars_to_vortex(input[i])]
             failed == {i \in 1..Len(input) : ~inputs[i].ok}
         IN  IF failed # {}
             THEN inputs[CHOOSE i \in failed : \A j \in failed : i <= j]
             ELSE Function(expr.Function.function)
    ELSE Raise("NotImplementedError", "Unsupported Polars expression")

\* polars_to_vortex(expr): the expression arrives as its JSON tree.
polars_to_vortex(expr) == _polars_to_vortex(expr)

(***************************************************************************)
(* The expression trees handed to the translator                           *)
(***************************************************************************)
PyValues == {None} \cup {ToString(i) : i \in 1..MaxPayload}

Units == {"Nanoseconds", "Microseconds", "Milliseconds", "Seconds", "Days"}

TimeZones == {None, "'UTC'"}

TypedDicts == {t :> v : t \in LiteralTypeTags \cup {"Decimal"}, v \in PyValues}

DateTimeDicts == {[DateTime |-> <<v, u, tz>>] : v \in PyValues, u \in Units, tz \in TimeZones}

ScalarValues ==
    {[Null |-> None], [Int |-> "1"], [Boolean |-> "True"]}
        \cup {[StringOwned |-> v] : v \in PyValues \ {None}}

ScalarDicts ==
    {[Scalar |-> [dtype |-> d, value |-> sv]] : d \in LiteralTypeTags \cup {"Decimal"}, sv \in ScalarValues}

SeriesDict == [Series |-> "s"]

DynDicts ==
    {[Dyn |-> d] : d \in TypedDicts \cup ScalarDicts
                         \cup {SeriesDict, [Dyn |-> [Int |-> "1"]], << >>,
                               [DateTime |-> <<"1", "Seconds", None>>],
                               [DateTime |-> <<"1", "Days", "'UTC'">>]}}

LiteralDicts == TypedDicts \cup DateTimeDicts \cup ScalarDicts \cup DynDicts \cup {SeriesDict, << >>}

Leaves ==
    {[Column |-> c] : c \in {"a", "b"}}
        \cup {[Literal |-> d] : d \in LiteralDicts}
        \cup ScalarDicts
        \cup {[Window |-> "w"], [Column |-> "a", Literal |-> [Int |-> "1"]]}

\* operands of the generated binary expressions: some translate, some raise
Operands ==
    {[Column |-> "a"], [Column |-> "b"], [Literal |-> [Int |-> "1"]],
     [Literal |-> [String |-> None]], [Literal |-> [DateTime |-> <<"1", "Seconds", None>>]],
     [Literal |-> SeriesDict], [Literal |-> [Decimal |-> "1"]]}

Bin(l, op, r) == [BinaryExpr |-> [left |-> l, right |-> r, op |-> op]]

Binaries == {Bin(l, op, r) : l \in Operands, op \in OpTags \cup {"Xor"}, r \in Operands}

NestedOperands ==
    {Bin([Column |-> "a"], "Eq", [Literal |-> [Int |-> "1"]]),
     Bin([Column |-> "b"], "Lt", [Column |-> "a"]),
     Bin([Column |-> "a"], "Xor", [Literal |-> [Int |-> "1"]]),
     [Column |-> "b"]}

Nested == {Bin(l, op, r) : l \in NestedOperands, op \in {"And", "LogicalOr", "Xor"}, r \in NestedOperands}

FunctionTags ==
    {[Boolean |-> [IsIn |-> [nulls_equal |-> TRUE]]],
     [Boolean |-> [IsIn |-> [nulls_equal |-> FALSE]]],
     [Boolean |-> [IsNull |-> None]],
     [StringExpr |-> [Contains |-> None]],
     [StringExpr |-> [StartsWith |-> None]],
     [Abs |-> None]}

Inputs ==
    {[Column |-> "a"], [Literal |-> [Int |-> "1"]], [Literal |-> SeriesDict],
     [Literal |-> [Decimal |-> "1"]]}

Functions ==
    {[Function |-> [input |-> i, function |-> f]] :
        i \in UNION {[1..n -> Inputs] : n \in 0..MaxInputs}, f \in FunctionTags}

Nodes ==
    Leaves \cup Binaries \cup Nested \cup Functions
        \cup {[BinaryExpr |-> [left |-> [Column |-> "a"], right |-> [Column |-> "b"], op |-> "Eq"],
               Column |-> "a"]}

(***************************************************************************)
(* A direct call of polars_to_vortex                                       *)
(***************************************************************************)
BridgeIdle ==
    /\ nrows = 0 /\ matching = 0 /\ defaultBatch = 1
    /\ pc = "idle" /\ schema = << >> /\ args = Nothing /\ gen = "none"
    /\ scan = Nothing /\ reader = Nothing /\ yielded = << >>
    /\ error = NoError /\ pulls = 0

InitTranslate ==
    /\ texpr \in {Some(n) : n \in Nodes}
    /\ tresult = NoError
    /\ tpc = "input"
    /\ BridgeIdle

Translate ==
    /\ tpc = "input"
    /\ tresult' = polars_to_vortex(texpr.v)
    /\ tpc' = "done"
    /\ UNCHANGED <<texpr, bvars>>

NextTranslate == Translate

SpecTranslate == InitTranslate /\ [][NextTranslate]_vars

(***************************************************************************)
(* file.py: VortexFile.to_polars and its _io_source generator              *)
(***************************************************************************)
\* the struct dtype of the opened file
dtype == [kind |-> "struct", names |-> <<"bool", "float", "index", "string">>]

\* self.dtype.to_arrow_schema(): the fields of the struct, in order
to_arrow_schema(d) == d.names

Min(a, b) == IF a <= b THEN a ELSE b

\* VortexFile.to_arrow(projection, expr, batch_size): a record batch reader
\* over the rows the expression keeps, cut into batches of batch_size rows,
\* with the projected columns in the projection's order.
to_arrow(projection, expr, batch_size) ==
    LET cols == IF projection.some THEN projection.v ELSE to_arrow_schema(dtype)
        rows == IF expr.some THEN matching ELSE nrows
        size == IF batch_size.some THEN batch_size.v ELSE defaultBatch
    IN  [schema  |-> cols,
         batches |-> [i \in 1..((rows + size - 1) \div size) |->
                        [schema   |-> cols,
                         start    |-> (i - 1) * size,
                         num_rows |-> Min(size, rows - (i - 1) * size)]]]

\* pl.DataFrame._from_arrow(batch): same columns, same rows
_from_arrow(batch) ==
    [frame |-> "DataFrame", columns |-> batch.schema, start |-> batch.start,
     height |-> batch.num_rows]

EmptyFrame_full_schema(reader_schema) ==
    _from_arrow([schema |-> to_arrow_schema(dtype), start |-> 0, num_rows |-> 0])

\* the empty DataFrame built from reader.schema after the loop
EmptyFrame(reader_schema) ==
    _from_arrow([schema |-> reader_schema, start |-> 0, num_rows |-> 0])

OpenReader_row_limit(with_columns, predicate, n_rows, batch_size) ==
    LET rd == to_arrow(with_columns, predicate, Nothing)
    IN  [scan   |-> [projection |-> with_columns, expr |-> predicate, batch_size |-> Nothing],
         reader |-> IF n_rows.some
                    THEN [rd EXCEPT !.batches =
                            SubSeq(rd.batches, 1, Min(Len(rd.batches), n_rows.v))]
                    ELSE rd]

\* reader = self.to_arrow(projection=with_columns, expr=predicate): the call
\* passes neither batch_size nor n_rows on.
OpenReader(with_columns, predicate, n_rows, batch_size) ==
    [scan   |-> [projection |-> with_columns, expr |-> predicate, batch_size |-> Nothing],
     reader |-> to_arrow(with_columns, predicate, Nothing)]

Projections == {Nothing, Some(<<"string", "bool">>), Some(<<"bool", "string">>), Some(<<"index">>)}

Predicates ==
    {Nothing,
     Some(Bin([Column |-> "index"], "Gt", [Literal |-> [Int |-> "1"]])),
     Some(Bin([Column |-> "index"], "Xor", [Literal |-> [Int |-> "1"]])),
     Some([Literal |-> SeriesDict]),
     Some([Literal |-> [DateTime |-> <<"1", "Seconds", "'UTC'">>]]),
     Some([Scalar |-> [dtype |-> "Decimal", value |-> [Null |-> None]]]),
     Some([Function |-> [input |-> <<[Column |-> "string"]>>,
                         function |-> [StringExpr |-> [Contains |-> None]]]])}

RowLimits == {Nothing} \cup {Some(n) : n \in 0..1}

BatchSizes == {Nothing} \cup {Some(k) : k \in 1..MaxBatch}

TranslateIdle == texpr = Nothing /\ tresult = NoError /\ tpc = "idle"

Init ==
    /\ TranslateIdle
    /\ nrows \in 0..MaxRows
    /\ matching \in 0..nrows
    /\ defaultBatch \in 1..MaxBatch
    /\ pc = "opened"
    /\ schema = << >>
    /\ args = Nothing
    /\ gen = "none"
    /\ scan = Nothing
    /\ reader = Nothing
    /\ yielded = << >>
    /\ error = NoError
    /\ pulls = 0

\* _to_polars up to register_io_source(_io_source, schema=schema)
ToPolars ==
    /\ pc = "opened"
    /\ schema' = to_arrow_schema(dtype)
    /\ pc' = "registered"
    /\ UNCHANGED <<tvars, nrows, matching, defaultBatch, args, gen, scan, reader,
                   yielded, error, pulls>>

\* The consumer calls _io_source(...): a generator function, so the call
\* returns a generator object and runs none of the body.
IoSource ==
    /\ pc = "registered"
    /\ \E with_columns \in Projections, predicate \in Predicates,
          n_rows \in RowLimits, batch_size \in BatchSizes :
          args' = [with_columns |-> with_columns, predicate |-> predicate,
                   n_rows |-> n_rows, batch_size |-> batch_size]
    /\ gen' = "created"
    /\ pc' = "called"
    /\ UNCHANGED <<tvars, nrows, matching, defaultBatch, schema, scan, reader,
                   yielded, error, pulls>>

Advance_sentinel_if_empty(rd) ==
    IF rd.batches # << >>
    THEN /\ yielded' = Append(yielded, _from_arrow(Head(rd.batches)))
         /\ reader' = [rd EXCEPT !.batches = Tail(rd.batches)]
         /\ gen' = "loop"
         /\ error' = error
    ELSE IF yielded = << >>
    THEN /\ yielded' = Append(yielded, EmptyFrame(rd.schema))
         /\ reader' = rd
         /\ gen' = "sentinel"
         /\ error' = error
    ELSE /\ yielded' = yielded
         /\ reader' = rd
         /\ gen' = "done"
         /\ error' = error

\* The generator runs to its next yield: the next batch of the reader, or
\* the empty DataFrame once the reader is exhausted.
Advance(rd) ==
    IF rd.batches # << >>
    THEN /\ yielded' = Append(yielded, _from_arrow(Head(rd.batches)))
         /\ reader' = [rd EXCEPT !.batches = Tail(rd.batches)]
         /\ gen' = "loop"
         /\ error' = error
    ELSE /\ yielded' = Append(yielded, EmptyFrame(rd.schema))
         /\ reader' = rd
         /\ gen' = "sentinel"
         /\ error' = error

Start_reader_first ==
    /\ gen = "created"
    /\ pulls' = pulls + 1
    /\ LET p == args.predicate
           r == IF p.some THEN polars_to_vortex(p.v) ELSE NoError
           o == OpenReader(args.with_columns, Nothing, args.n_rows, args.batch_size)
       IN  IF p.some /\ ~r.ok
           THEN /\ scan' = Some(o.scan)
                /\ reader' = o.reader
                /\ yielded' = Append(yielded, EmptyFrame(o.reader.schema))
                /\ gen' = "sentinel"
                /\ error' = error
           ELSE LET q == OpenReader(args.with_columns,
                                    IF p.some THEN Some(r.val) ELSE Nothing,
                                    args.n_rows, args.batch_size)
                IN  /\ scan' = Some(q.scan)
                    /\ Advance(q.reader)
    /\ UNCHANGED <<tvars, nrows, matching, defaultBatch, pc, schema, args>>

Start_open_before_translate ==
    /\ gen = "created"
    /\ pulls' = pulls + 1
    /\ LET p == args.predicate
           r == IF p.some THEN polars_to_vortex(p.v) ELSE NoError
           u == OpenReader(args.with_columns, Nothing, args.n_rows, args.batch_size)
       IN  IF p.some /\ ~r.ok
           THEN /\ gen' = "raised"
                /\ error' = r
                /\ scan' = Some(u.scan)
                /\ reader' = u.reader
                /\ UNCHANGED yielded
           ELSE LET o == OpenReader(args.with_columns,
                                    IF p.some THEN Some(r.val) ELSE Nothing,
                                    args.n_rows, args.batch_size)
                IN  /\ scan' = Some(o.scan)
                    /\ Advance(o.reader)
    /\ UNCHANGED <<tvars, nrows, matching, defaultBatch, pc, schema, args>>

\* The first next(): the body runs from its top, translating the predicate,
\* opening the reader and running the loop to the first yield.
Start ==
    /\ gen = "created"
    /\ pulls' = pulls + 1
    /\ LET p == args.predicate
           r == IF p.some THEN polars_to_vortex(p.v) ELSE NoError
       IN  IF p.some /\ ~r.ok
           THEN /\ gen' = "raised"
                /\ error' = r
                /\ UNCHANGED <<scan, reader, yielded>>
           ELSE LET o == OpenReader(args.with_columns,
                                    IF p.some THEN Some(r.val) ELSE Nothing,
                                    args.n_rows, args.batch_size)
                IN  /\ scan' = Some(o.scan)
                    /\ Advance(o.reader)
    /\ UNCHANGED <<tvars, nrows, matching, defaultBatch, pc, schema, args>>

\* A later next() while the generator is suspended in the loop.
Resume ==
    /\ gen = "loop"
    /\ pulls' = pulls + 1
    /\ Advance(reader)
    /\ UNCHANGED <<tvars, nrows, matching, defaultBatch, pc, schema, args, scan>>

\* next() after the empty DataFrame: the body ends, StopIteration.
Finish ==
    /\ gen = "sentinel"
    /\ pulls' = pulls + 1
    /\ gen' = "done"
    /\ UNCHANGED <<tvars, nrows, matching, defaultBatch, pc, schema, args, scan,
                   reader, yielded, error>>

\* the exception of a reader that fails while it is iterated
ReaderError == Raise("Exception", "reader")

\* A next() during which the reader raises: the loop has no handler, so the
\* exception leaves the generator and the code after the loop never runs.
ReaderRaises ==
    /\ \/ gen = "loop"
       \/ /\ gen = "created"
          /\ args.predicate.some => polars_to_vortex(args.predicate.v).ok
    /\ pulls' = pulls + 1
    /\ gen' = "raised"
    /\ error' = ReaderError
    /\ IF gen = "created"
       THEN LET p == args.predicate
                o == OpenReader(args.with_columns,
                                IF p.some THEN Some(polars_to_vortex(p.v).val) ELSE Nothing,
                                args.n_rows, args.batch_size)
            IN  scan' = Some(o.scan) /\ reader' = o.reader
       ELSE UNCHANGED <<scan, reader>>
    /\ UNCHANGED <<tvars, nrows, matching, defaultBatch, pc, schema, args, yielded>>

Close_emits_sentinel ==
    /\ gen \in {"created", "loop", "sentinel"}
    /\ gen' = "closed"
    /\ yielded' = IF gen = "sentinel"
                  THEN yielded
                  ELSE Append(yielded,
                              EmptyFrame(IF args.with_columns.some
                                         THEN args.with_columns.v
                                         ELSE to_arrow_schema(dtype)))
    /\ UNCHANGED <<tvars, nrows, matching, defaultBatch, pc, schema, args, scan,
                   reader, error, pulls>>

\* The consumer drops the generator without exhausting it: the generator is
\* closed where it is suspended and runs no further yield.
Close ==
    /\ gen \in {"created", "loop", "sentinel"}
    /\ gen' = "closed"
    /\ UNCHANGED <<tvars, nrows, matching, defaultBatch, pc, schema, args, scan,
                   reader, yielded, error, pulls>>

Next == ToPolars \/ IoSource \/ Start \/ Resume \/ Finish \/ ReaderRaises \/ Close

Spec == Init /\ [][Next]_vars

(***************************************************************************)
(* Properties of the translation, checked under SpecTranslate              *)
(***************************************************************************)
Translated == tpc = "done"

\* C1: a BinaryExpr whose op is in the operator table and whose operands both
\* translate becomes the table's binary expression for op over the translated
\* left operand as lhs and the translated right operand as rhs; And and
\* LogicalAnd give the same conjunction, Or and LogicalOr the same disjunction.
C1_OperatorTable ==
    (Translated /\ "BinaryExpr" \in DOMAIN texpr.v) =>
        LET b == texpr.v.BinaryExpr
            l == polars_to_vortex(b.left)
            r == polars_to_vortex(b.right)
            constructor ==
                [o \in OpTags |->
                    CASE o = "Eq" -> "eq" [] o = "NotEq" -> "ne" [] o = "Lt" -> "lt"
                      [] o = "LtEq" -> "le" [] o = "Gt" -> "gt" [] o = "GtEq" -> "ge"
                      [] o \in {"And", "LogicalAnd"} -> "and_"
                      [] o \in {"Or", "LogicalOr"} -> "or_"]
        IN  (b.op \in OpTags /\ l.ok /\ r.ok) =>
                tresult = [ok |-> TRUE,
                           val |-> [tag |-> "BinaryOp", op |-> constructor[b.op],
                                    lhs |-> l.val, rhs |-> r.val]]

C1_Witness ==
    /\ Translated
    /\ "BinaryExpr" \in DOMAIN texpr.v
    /\ texpr.v.BinaryExpr.op = "LogicalOr"
    /\ "BinaryExpr" \in DOMAIN texpr.v.BinaryExpr.left
    /\ tresult.ok
    /\ tresult.val.op = "or_"
    /\ tresult.val.lhs # tresult.val.rhs

\* the domain type the claim names for each tag of the literal type table
DomainType ==
    [t \in LiteralTypeTags |->
        CASE t = "Boolean" -> [kind |-> "bool"]
          [] t \in {"Int", "Int64"} -> [kind |-> "int", width |-> 64]
          [] t = "Int8" -> [kind |-> "int", width |-> 8]
          [] t = "Int16" -> [kind |-> "int", width |-> 16]
          [] t = "Int32" -> [kind |-> "int", width |-> 32]
          [] t = "UInt8" -> [kind |-> "uint", width |-> 8]
          [] t = "UInt16" -> [kind |-> "uint", width |-> 16]
          [] t = "UInt32" -> [kind |-> "uint", width |-> 32]
          [] t = "UInt64" -> [kind |-> "uint", width |-> 64]
          [] t = "Float32" -> [kind |-> "float", width |-> 32]
          [] t = "Float64" -> [kind |-> "float", width |-> 64]
          [] t = "Null" -> [kind |-> "null"]
          [] t = "String" -> [kind |-> "utf8"]
          [] t = "Binary" -> [kind |-> "binary"]]

IsTypedLiteral ==
    /\ DOMAIN texpr.v = {"Literal"}
    /\ FirstKey(texpr.v.Literal) \in LiteralTypeTags

\* C2 as stated: for every tag T of the literal type table and every value v,
\* Literal{T: v} translates to Literal(dtype, v) with dtype the domain type of
\* T and dtype.nullable true if and only if v is absent.
C2_Original ==
    (Translated /\ IsTypedLiteral) =>
        LET T == FirstKey(texpr.v.Literal)
            v == texpr.v.Literal[T]
        IN  /\ tresult.ok
            /\ tresult.val.tag = "Literal"
            /\ tresult.val.value = v
            /\ [f \in DOMAIN DomainType[T] |-> tresult.val.dtype[f]] = DomainType[T]
            /\ tresult.val.dtype.nullable <=> (v = None)

\* C2 amended: the same for every tag but Null; Literal{Null: v} translates to
\* Literal(null type, v) with the one null type, nullable, whatever v is.
C2_TypedLiteral ==
    (Translated /\ IsTypedLiteral) =>
        LET T == FirstKey(texpr.v.Literal)
            v == texpr.v.Literal[T]
        IN  /\ tresult.ok
            /\ tresult.val.tag = "Literal"
            /\ tresult.val.value = v
            /\ [f \in DOMAIN DomainType[T] |-> tresult.val.dtype[f]] = DomainType[T]
            /\ DOMAIN tresult.val.dtype = DOMAIN DomainType[T] \cup {"nullable"}
            /\ T # "Null" => (tresult.val.dtype.nullable <=> (v = None))
            /\ T = "Null" => tresult.val.dtype.nullable

C2_Witness ==
    /\ Translated
    /\ texpr.v = [Literal |-> [UInt16 |-> "1"]]
    /\ tresult.ok
    /\ ~tresult.val.dtype.nullable

IsUnknownOp ==
    /\ "BinaryExpr" \in DOMAIN texpr.v
    /\ texpr.v.BinaryExpr.op \notin OpTags

\* C8 as stated: a BinaryExpr whose op is not in the operator table fails with
\* the unsupported-operator error whatever its left and right sub-nodes are.
C8_Original ==
    (Translated /\ IsUnknownOp) =>
        tresult = [ok |-> FALSE, exc |-> "NotImplementedError",
                   msg |-> "Unsupported Polars binary operator"]

\* C8 amended: a BinaryExpr whose op is not in the operator table never
\* yields a tree: it fails with the unsupported-operator error when both of
\* its sub-nodes translate, and otherwise with the error of its first failing
\* sub-node, left before right.
C8_UnknownOperator ==
    (Translated /\ IsUnknownOp) =>
        LET b == texpr.v.BinaryExpr
            l == polars_to_vortex(b.left)
            r == polars_to_vortex(b.right)
        IN  /\ ~tresult.ok
            /\ (l.ok /\ r.ok) =>
                   tresult = [ok |-> FALSE, exc |-> "NotImplementedError",
                              msg |-> "Unsupported Polars binary operator"]
            /\ ~l.ok => tresult = l
            /\ (l.ok /\ ~r.ok) => tresult = r

C8_Witness ==
    /\ Translated
    /\ IsUnknownOp
    /\ texpr.v.BinaryExpr.op = "Xor"
    /\ texpr.v.BinaryExpr.left = [Column |-> "a"]
    /\ texpr.v.BinaryExpr.right = [Literal |-> [Int |-> "1"]]
    /\ ~tresult.ok
    /\ tresult.msg = "Unsupported Polars binary operator"

IsDateTimeLiteral ==
    /\ DOMAIN texpr.v = {"Literal"}
    /\ FirstKey(texpr.v.Literal) = "DateTime"

KnownUnits == {"Nanoseconds", "Microseconds", "Milliseconds", "Seconds"}

\* C9 as stated: a DateTime literal with a non-null tz fails, for every unit
\* (recognised or not), with the error kind of the other unsupported-construct
\* cases (a Series literal, substring containment).
C9_Original ==
    (Translated /\ IsDateTimeLiteral /\ texpr.v.Literal.DateTime[3] # None) =>
        /\ ~tresult.ok
        /\ tresult.exc = "ValueError"
        /\ tresult.exc = polars_to_vortex([Literal |-> SeriesDict]).exc
        /\ tresult.exc =
              polars_to_vortex([Function |-> [input |-> << >>,
                                              function |-> [StringExpr |-> [Contains |-> None]]]]).exc

\* C9 amended: a DateTime literal with a non-null tz and one of the four
\* recognised units fails with the ValueError of the other
\* unsupported-construct cases; with an unrecognised unit it fails, whatever
\* tz is, with the NotImplementedError for the unit, raised before tz is read.
C9_TimeZone ==
    (Translated /\ IsDateTimeLiteral) =>
        LET unit == texpr.v.Literal.DateTime[2]
            tz   == texpr.v.Literal.DateTime[3]
        IN  /\ (tz # None /\ unit \in KnownUnits) =>
                /\ tresult = [ok |-> FALSE, exc |-> "ValueError",
                              msg |-> "Polars DateTime with timezone not supported"]
                /\ tresult.exc = polars_to_vortex([Literal |-> SeriesDict]).exc
                /\ tresult.exc =
                      polars_to_vortex([Function |-> [input |-> << >>,
                                                      function |-> [StringExpr |-> [Contains |-> None]]]]).exc
            /\ unit \notin KnownUnits =>
                tresult = [ok |-> FALSE, exc |-> "NotImplementedError",
                           msg |-> "Unsupported Polars date time unit"]

C9_Witness ==
    /\ Translated
    /\ IsDateTimeLiteral
    /\ texpr.v.Literal.DateTime[2] = "Milliseconds"
    /\ texpr.v.Literal.DateTime[3] # None
    /\ ~tresult.ok
    /\ tresult.exc = "ValueError"

\* C10: a DateTime literal with a null tz and a recognised unit translates to
\* Literal(dtype, value), dtype the timestamp extension type over 64-bit
\* signed integer storage, nullable iff value is absent, with exactly three
\* metadata bytes: 0, 1, 2, 3 for Nanoseconds, Microseconds, Milliseconds,
\* Seconds, then two zero bytes.
C10_Timestamp ==
    (Translated /\ IsDateTimeLiteral) =>
        LET value == texpr.v.Literal.DateTime[1]
            unit  == texpr.v.Literal.DateTime[2]
            tz    == texpr.v.Literal.DateTime[3]
            byte  == [u \in KnownUnits |->
                        CASE u = "Nanoseconds" -> 0 [] u = "Microseconds" -> 1
                          [] u = "Milliseconds" -> 2 [] u = "Seconds" -> 3]
        IN  (tz = None /\ unit \in KnownUnits) =>
                tresult =
                    [ok |-> TRUE,
                     val |-> [tag |-> "Literal",
                              dtype |-> [kind |-> "ext", id |-> "vortex.timestamp",
                                         storage |-> [kind |-> "int", width |-> 64,
                                                      nullable |-> (value = None)],
                                         metadata |-> <<byte[unit], 0, 0>>],
                              value |-> value]]

C10_Witness ==
    /\ Translated
    /\ IsDateTimeLiteral
    /\ texpr.v.Literal.DateTime[2] = "Seconds"
    /\ tresult.ok
    /\ tresult.val.dtype.metadata = <<3, 0, 0>>
    /\ tresult.val.dtype.storage.nullable

(***************************************************************************)
(* Properties of the IO source, checked under Spec                         *)
(***************************************************************************)
Called == pc = "called"

PredicateFails ==
    /\ Called
    /\ args.predicate.some
    /\ ~polars_to_vortex(args.predicate.v).ok

PredicateGood ==
    /\ Called
    /\ args.predicate.some => polars_to_vortex(args.predicate.v).ok

FullColumns == <<"bool", "float", "index", "string">>

ProjectedColumns == IF args.with_columns.some THEN args.with_columns.v ELSE FullColumns

ZeroRows(f) == f.height = 0

\* C3: when the predicate is absent or translates and the generator is pulled
\* to exhaustion, the frames yielded are the reader's batches in order
\* followed by exactly one zero-row frame with the projected schema, and that
\* frame is the only one when the reader has no batch.
C3_Sentinel ==
    (PredicateGood /\ gen = "done") =>
        /\ scan.some
        /\ LET batches == to_arrow(scan.v.projection, scan.v.expr, scan.v.batch_size).batches
               n == Len(batches)
           IN  /\ Len(yielded) = n + 1
               /\ \A i \in 1..n :
                    /\ yielded[i].columns = batches[i].schema
                    /\ yielded[i].start = batches[i].start
                    /\ yielded[i].height = batches[i].num_rows
                    /\ ~ZeroRows(yielded[i])
               /\ ZeroRows(yielded[n + 1])
               /\ yielded[n + 1].columns = ProjectedColumns

C3_Witness ==
    /\ gen = "done"
    /\ args.predicate.some
    /\ args.with_columns.some
    /\ Len(yielded) = 3
    /\ ZeroRows(yielded[3])

\* C4: called with batch_size = K >= 1 and no predicate over a file of M rows,
\* the generator opens its reader with batch size K and yields exactly
\* ceil(M / K) frames with rows followed by exactly one zero-row frame.
C4_BatchSize ==
    (Called /\ ~args.predicate.some /\ args.batch_size.some /\ gen = "done") =>
        LET K == args.batch_size.v
        IN  /\ scan.some
            /\ scan.v.batch_size = Some(K)
            /\ Len(yielded) = ((nrows + K - 1) \div K) + 1
            /\ \A i \in 1..Len(yielded) : ZeroRows(yielded[i]) <=> i = Len(yielded)

\* C5 as stated: with a projection, every frame yielded, the last zero-row
\* one included, has exactly the projected columns in order, and the schema
\* computed eagerly for the source is the full schema narrowed to it.
C5_Original ==
    (Called /\ args.with_columns.some) =>
        /\ \A i \in 1..Len(yielded) : yielded[i].columns = args.with_columns.v
        /\ schema = args.with_columns.v

\* C5 amended: with a projection, every frame yielded, the last zero-row one
\* included, has exactly the projected columns in order; the schema computed
\* eagerly, before the projection is known, is the file's full schema and is
\* not narrowed.
C5_Projection ==
    (Called /\ args.with_columns.some) =>
        /\ \A i \in 1..Len(yielded) : yielded[i].columns = args.with_columns.v
        /\ schema = FullColumns

C5_Witness ==
    /\ gen = "done"
    /\ args.with_columns = Some(<<"string", "bool">>)
    /\ Len(yielded) >= 2
    /\ yielded[Len(yielded)].columns = <<"string", "bool">>

\* C6 as stated: a predicate that fails to translate fails the _io_source
\* call itself: once the call has returned no generator is left to pull and
\* the error is never raised by a pull.
C6_Original ==
    PredicateFails => (gen = "raised" /\ error # NoError /\ pulls = 0)

\* C6 amended: the _io_source call only creates the generator; a predicate
\* that fails to translate raises its error on the first pull, before the
\* reader is opened and before any frame is yielded, and on no later pull.
C6_FirstPull ==
    /\ PredicateFails =>
          /\ yielded = << >>
          /\ scan = Nothing
          /\ \/ pulls = 0 /\ gen \in {"created", "closed"} /\ error = NoError
             \/ pulls = 1 /\ gen = "raised" /\ error = polars_to_vortex(args.predicate.v)
    /\ (error # NoError /\ error # ReaderError) => (PredicateFails /\ pulls = 1)

C6_Witness ==
    /\ PredicateFails
    /\ gen = "raised"
    /\ pulls = 1
    /\ error.exc = "ValueError"

\* C7: when the predicate is present and fails to translate, with whatever
\* error, the reader is never opened and the consumer receives no frame at
\* all, not even the zero-row one.
C7_NoScan ==
    PredicateFails =>
        /\ scan = Nothing
        /\ reader = Nothing
        /\ yielded = << >>
        /\ gen \in {"created", "raised", "closed"}

C7_Witness ==
    /\ PredicateFails
    /\ gen = "raised"
    /\ error.exc \in {"NotImplementedError", "KeyError"}
    /\ yielded = << >>

Sentinels == Cardinality({i \in 1..Len(yielded) : ZeroRows(yielded[i])})

Ended == gen \in {"done", "raised", "closed"}

\* C11 as stated: no scan ends without having emitted the zero-row frame
\* exactly once, whether it is exhausted, abandoned early by its consumer, or
\* fails in predicate translation or in the reader.
C11_Original == Ended => Sentinels = 1

\* C11 amended: the zero-row frame is emitted at most once and only as the
\* last frame, after every batch of the reader; a scan pulled to exhaustion
\* has emitted it exactly once, a scan that fails in predicate translation or
\* in the reader has not emitted it, and a scan its consumer abandons has
\* emitted it only if it was abandoned after the reader was exhausted.
C11_SentinelOnce ==
    /\ Sentinels <= 1
    /\ Sentinels = 1 =>
          /\ scan.some
          /\ ZeroRows(yielded[Len(yielded)])
          /\ Len(yielded) =
                Len(to_arrow(scan.v.projection, scan.v.expr, scan.v.batch_size).batches) + 1
          /\ gen \in {"sentinel", "done", "closed"}
    /\ gen = "done" => Sentinels = 1
    /\ gen = "raised" => Sentinels = 0
    /\ gen = "closed" => (Sentinels = 1 <=> (reader # Nothing /\ reader.batches = << >>
                                             /\ Len(yielded) = pulls /\ pulls > 0
                                             /\ ZeroRows(yielded[pulls])))

C11_Witness ==
    /\ gen = "closed"
    /\ Len(yielded) = 2
    /\ Sentinels = 0
    /\ reader.batches # << >>

(***************************************************************************)
(* Properties of the Scalar, Dyn and Function branches (SpecTranslate)     *)
(***************************************************************************)
IsScalarNode ==
    \/ DOMAIN texpr.v = {"Scalar"}
    \/ DOMAIN texpr.v = {"Literal"} /\ FirstKey(texpr.v.Literal) = "Scalar"

ScalarOf == IF "Scalar" \in DOMAIN texpr.v THEN texpr.v.Scalar ELSE texpr.v.Literal.Scalar

\* the domain type of tag t with the given nullable flag
DomainTypeOf(t, nullable) ==
    [f \in DOMAIN DomainType[t] \cup {"nullable"} |->
        IF f = "nullable" THEN nullable ELSE DomainType[t][f]]

\* C12 as stated: a Scalar whose dtype tag is in the table translates to
\* Literal(dtype nullable, absent) for a Null value, to Literal(dtype not
\* nullable, payload) for a string-owned value, and fails with the
\* unsupported-construct error for every other value shape.
C12_Original ==
    (Translated /\ IsScalarNode /\ ScalarOf.dtype \in LiteralTypeTags) =>
        LET d == ScalarOf.dtype
            value == ScalarOf.value
        IN  /\ "Null" \in DOMAIN value =>
                tresult = [ok |-> TRUE,
                           val |-> [tag |-> "Literal", dtype |-> DomainTypeOf(d, TRUE),
                                    value |-> None]]
            /\ DOMAIN value = {"StringOwned"} =>
                tresult = [ok |-> TRUE,
                           val |-> [tag |-> "Literal", dtype |-> DomainTypeOf(d, FALSE),
                                    value |-> value.StringOwned]]
            /\ DOMAIN value \cap {"Null", "StringOwned"} = {} =>
                (~tresult.ok /\ tresult.exc = "ValueError")

\* C12 amended: the same, except that for the dtype tag Null a string-owned
\* value gives Literal(null type, payload), the null type being nullable
\* whatever the value is.
C12_Scalar ==
    (Translated /\ IsScalarNode /\ ScalarOf.dtype \in LiteralTypeTags) =>
        LET d == ScalarOf.dtype
            value == ScalarOf.value
        IN  /\ "Null" \in DOMAIN value =>
                tresult = [ok |-> TRUE,
                           val |-> [tag |-> "Literal", dtype |-> DomainTypeOf(d, TRUE),
                                    value |-> None]]
            /\ DOMAIN value = {"StringOwned"} =>
                tresult = [ok |-> TRUE,
                           val |-> [tag |-> "Literal", dtype |-> DomainTypeOf(d, d = "Null"),
                                    value |-> value.StringOwned]]
            /\ DOMAIN value \cap {"Null", "StringOwned"} = {} =>
                tresult = [ok |-> FALSE, exc |-> "ValueError",
                           msg |-> "Unsupported Polars scalar value type"]

C12_Witness ==
    /\ Translated
    /\ texpr.v = [Literal |-> [Scalar |-> [dtype |-> "String", value |-> [StringOwned |-> "1"]]]]
    /\ tresult.ok
    /\ tresult.val.value = "1"
    /\ ~tresult.val.dtype.nullable

\* C13: a Scalar, met directly or inside a Literal, whose value is a Null or
\* a string-owned one but whose dtype tag is not in the table fails with the
\* unsupported-literal-type error, the error of a legacy Literal with an
\* unknown type tag.
C13_UnknownScalarType ==
    (Translated /\ IsScalarNode /\ ScalarOf.dtype \notin LiteralTypeTags
        /\ DOMAIN ScalarOf.value \cap {"Null", "StringOwned"} # {}) =>
        /\ tresult = [ok |-> FALSE, exc |-> "NotImplementedError",
                      msg |-> "Unsupported Polars literal type"]
        /\ tresult = polars_to_vortex([Literal |-> [Decimal |-> "1"]])

IsDynLiteral ==
    /\ DOMAIN texpr.v = {"Literal"}
    /\ FirstKey(texpr.v.Literal) = "Dyn"

\* C14 as stated: Literal{Dyn{K: v}} has the outcome of Literal{K: v} for
\* every inner key K: a table tag, DateTime, Series, Scalar, Dyn or an
\* unknown tag.
C14_Original ==
    (Translated /\ IsDynLiteral) =>
        tresult = polars_to_vortex([Literal |-> texpr.v.Literal.Dyn])

\* C14 amended: Literal{Dyn{K: v}} has the outcome of Literal{K: v} when K is
\* a tag of the literal type table or an unknown tag; when K is DateTime,
\* Series, Scalar or Dyn the unwrapped key goes straight to the table lookup
\* and the translation fails with the unsupported-literal-type error.
C14_Dyn ==
    (Translated /\ IsDynLiteral) =>
        LET d == texpr.v.Literal.Dyn
            K == FirstKey(d)
        IN  /\ K \notin {"DateTime", "Series", "Scalar", "Dyn"} =>
                tresult = polars_to_vortex([Literal |-> d])
            /\ K \in LiteralTypeTags =>
                (tresult.ok /\ tresult.val.tag = "Literal" /\ tresult.val.value = d[K])
            /\ K \notin LiteralTypeTags =>
                tresult = [ok |-> FALSE, exc |-> "NotImplementedError",
                           msg |-> "Unsupported Polars literal type"]

C14_Witness ==
    /\ Translated
    /\ texpr.v = [Literal |-> [Dyn |-> [Int |-> "1"]]]
    /\ tresult.ok
    /\ tresult.val.dtype = [kind |-> "int", width |-> 64, nullable |-> FALSE]

IsFunctionNode ==
    /\ "Function" \in DOMAIN texpr.v
    /\ DOMAIN texpr.v \cap {"BinaryExpr", "Column", "Scalar", "Literal"} = {}

\* C15: a Function node never translates to an expression.  Its inputs are
\* translated first, in order, and the first failure among them is the error
\* reported; when all inputs translate, the node fails with the
\* unsupported-construct error for IsIn with nulls_equal and for StringExpr
\* Contains, and with the unsupported-function error for every other function,
\* IsIn without nulls_equal included.
C15_Function ==
    (Translated /\ IsFunctionNode) =>
        LET input  == texpr.v.Function.input
            fn     == texpr.v.Function.function
            rs     == [i \in 1..Len(input) |-> polars_to_vortex(input[i])]
            failed == {i \in 1..Len(input) : ~rs[i].ok}
            isIn   == "Boolean" \in DOMAIN fn /\ "IsIn" \in DOMAIN fn.Boolean
            nullsEqual == isIn /\ fn.Boolean.IsIn.nulls_equal
            contains   == "StringExpr" \in DOMAIN fn /\ "Contains" \in DOMAIN fn.StringExpr
        IN  /\ ~tresult.ok
            /\ failed # {} =>
                  \E i \in failed : (\A j \in failed : i <= j) /\ tresult = rs[i]
            /\ (failed = {} /\ nullsEqual) =>
                  tresult = [ok |-> FALSE, exc |-> "ValueError",
                             msg |-> "Unsupported nulls_equal argument in fn"]
            /\ (failed = {} /\ contains) =>
                  tresult = [ok |-> FALSE, exc |-> "ValueError",
                             msg |-> "Unsupported Polars StringExpr.Contains"]
            /\ (failed = {} /\ ~nullsEqual /\ ~contains) =>
                  tresult = [ok |-> FALSE, exc |-> "NotImplementedError",
                             msg |-> "Unsupported Polars function"]

C15_Witness ==
    /\ Translated
    /\ IsFunctionNode
    /\ texpr.v.Function.function = [StringExpr |-> [Contains |-> None]]
    /\ Len(texpr.v.Function.input) = 2
    /\ \A i \in 1..2 : polars_to_vortex(texpr.v.Function.input[i]).ok
    /\ ~tresult.ok
    /\ tresult.exc = "ValueError"

(***************************************************************************)
(* The row limit (Spec)                                                    *)
(***************************************************************************)
\* what a scan yields in full, as a function of the projection, the
\* predicate and the file only
FramesWithoutLimit ==
    LET p       == args.predicate
        pred    == IF p.some THEN Some(polars_to_vortex(p.v).val) ELSE Nothing
        batches == to_arrow(args.with_columns, pred, scan.v.batch_size).batches
        n       == Len(batches)
    IN  [i \in 1..(n + 1) |->
            IF i <= n
            THEN [frame |-> "DataFrame", columns |-> batches[i].schema,
                  start |-> batches[i].start, height |-> batches[i].num_rows]
            ELSE [frame |-> "DataFrame", columns |-> ProjectedColumns,
                  start |-> 0, height |-> 0]]

\* C16: the row limit n_rows has no effect on the scan: the frames yielded
\* are always the leading frames of a sequence fixed by the projection, the
\* predicate and the file alone, and all of it once the generator is
\* exhausted, whatever n_rows is; so more than n_rows rows can be yielded.
C16_RowLimitIgnored ==
    (PredicateGood /\ scan.some) =>
        /\ scan.v.projection = args.with_columns
        /\ scan.v.expr.some = args.predicate.some
        /\ Len(yielded) <= Len(FramesWithoutLimit)
        /\ \A i \in 1..Len(yielded) : yielded[i] = FramesWithoutLimit[i]
        /\ gen = "done" => yielded = FramesWithoutLimit

C16_Witness ==
    /\ gen = "done"
    /\ args.n_rows = Some(0)
    /\ Len(yielded) = 3
    /\ yielded[1].height + yielded[2].height > 0

====
